---- MODULE Spec2Model ----
(***************************************************************************)
(* Model of the lazy matrix expression templates of matrix.hpp and of the  *)
(* statements matrixtest.cpp runs on them.                                 *)
(*                                                                         *)
(* Element values are exact dyadic rationals [n |-> numerator,             *)
(* d |-> denominator], d a power of two, kept normalised; an int is a      *)
(* value with d = 1; a double of the sizes used here is represented        *)
(* exactly.  The element type T of matrix<T> is "int" or "double".         *)
(* assert() is taken to be active (no NDEBUG): a failed assert aborts.     *)
(* A read outside a vector's storage and a read of a data member that was  *)
(* never initialised are undefined: the read yields any value of           *)
(* Indeterminate, or the program crashes.                                  *)
(***************************************************************************)
EXTENDS Integers, Sequences, FiniteSets, TLC

\* ---------------------------------------------------------------- bounds
MaxDim == 2
MaxNodes == 2

\* ------------------------------------------------------------- constants
SIZE == 20
scalar == 123

Names == {"a", "b", "c"}
Types == {"int", "double"}
Dims == 0..MaxDim

\* ------------------------------------------------------ element arithmetic
RECURSIVE Norm(_, _)
Norm(n, d) ==
  IF d > 1 /\ n % 2 = 0 THEN Norm(n \div 2, d \div 2) ELSE [n |-> n, d |-> d]

Zero == [n |-> 0, d |-> 1]

Add(x, y) == Norm(x.n * y.d + y.n * x.d, x.d * y.d)

Sub(x, y) == Norm(x.n * y.d - y.n * x.d, x.d * y.d)

Mul(x, y) == Norm(x.n * y.n, x.d * y.d)

Greater(x, y) == x.n * y.d > y.n * x.d

\* conversion of an arithmetic value to int: truncation toward zero
ToInt(x) ==
  [n |-> IF x.n >= 0 THEN x.n \div x.d ELSE -((-x.n) \div x.d), d |-> 1]

\* static_cast<T>(x) for the element type T
static_cast(t, x) == IF t = "int" THEN ToInt(x) ELSE x

\* the k-th generated number as an element of type T: the test generates
\* ints; the double instantiation holds the same numbers halved
Elem(t, k) == IF t = "int" THEN [n |-> k, d |-> 1] ELSE Norm(k, 2)

\* outcomes of an undefined read: a value, or a crash
Indeterminate(t) == {Elem(t, 0), Elem(t, 7)}

UB(t) == [crash : {TRUE}, v : {Zero}] \cup [crash : {FALSE}, v : Indeterminate(t)]

\* generate(va, ...): n = SIZE, then n = n - 3 per element
gen_va(t, len) == [k \in 1..len |-> Elem(t, SIZE - 3 * k)]

\* generate(vb, ...): n goes on from where va left it, n = n + 11 per element
gen_vb(t, lenA, len) == [k \in 1..len |-> Elem(t, SIZE - 3 * lenA + 11 * k)]

\* ------------------------------------------------------------ dense store
\* matrix<T>() = default: the vector is empty, num_rows_ and num_cols_ are
\* not initialised (dimsSet = FALSE; the two fields then hold no value a
\* read can rely on).
matrix_default == [num_rows_ |-> 0, num_cols_ |-> 0, dimsSet |-> FALSE, matrix_ |-> <<>>]

\* matrix<T>(rows, columns, data)
matrix_ctor(rows, columns, data) ==
  [num_rows_ |-> rows, num_cols_ |-> columns, dimsSet |-> TRUE, matrix_ |-> data]

\* what the reads of num_rows_ / num_cols_ of a store can yield
Resolve(m) ==
  IF m.dimsSet THEN {m}
  ELSE {[m EXCEPT !.num_rows_ = r, !.num_cols_ = c, !.dimsSet = TRUE] : r \in Dims, c \in Dims}

Ok(v) == [st |-> "ok", v |-> v]
Abort == [st |-> "abort", v |-> Zero]
Crash == [st |-> "crash", v |-> Zero]

\* matrix_[idx] of std::vector: unchecked
VecRead(vec, idx, u) ==
  IF idx < Len(vec) THEN Ok(vec[idx + 1])
  ELSE IF u.crash THEN Crash ELSE Ok(u.v)

\* T matrix<T>::at(row, col) const, on a store whose dimensions are m's
matrix_at(m, row, col, u) ==
  IF ~(col <= m.num_cols_) THEN Abort
  ELSE IF ~(row <= m.num_rows_) THEN Abort
  ELSE VecRead(m.matrix_, row * m.num_cols_ + col, u)

\* ------------------------------------------------------- expression nodes
\* operands of the operators: a dense store (by reference, so by name), a
\* scalar value, or a composite node
Leaf(name) == [kind |-> "matrix", name |-> name]

ScalarOf(v) == [kind |-> "scalar", v |-> v]

IsScalar(e) == e.kind = "scalar"

\* matrix_expr<E>::num_rows(), num_cols()
num_rows(e, ms) == IF e.kind = "matrix" THEN ms[e.name].num_rows_ ELSE e.num_rows_

num_cols(e, ms) == IF e.kind = "matrix" THEN ms[e.name].num_cols_ ELSE e.num_cols_

Node(kind, u, v, rows, cols, shared) ==
  [kind |-> kind, lhs_ |-> u, rhs_ |-> v, num_rows_ |-> rows, num_cols_ |-> cols,
   shared_dim |-> shared]

\* A constructor yields: ok (its assert held), the node, and the number of
\* at() calls and of element buffers it made.
Built(ok, node) == [ok |-> ok, node |-> node, lookups |-> 0, allocs |-> 0]

\* a matrix_sum whose assert compares the row counts only
matrix_sum_rows_only(u, v, ms) ==
  Built(num_rows(u, ms) = num_rows(v, ms),
        Node("sum", u, v, num_rows(u, ms), num_cols(u, ms), 0))

\* matrix_sum(E1 const& u, E2 const& v)
matrix_sum(u, v, ms) ==
  Built(num_rows(u, ms) = num_rows(v, ms) /\ num_cols(u, ms) = num_cols(v, ms),
        Node("sum", u, v, num_rows(u, ms), num_cols(u, ms), 0))

\* a matrix_sub that evaluates its operands into a buffer when it is built
matrix_sub_eager(u, v, ms) ==
  [ok |-> num_rows(u, ms) = num_rows(v, ms) /\ num_cols(u, ms) = num_cols(v, ms),
   node |-> Node("sub", u, v, num_rows(u, ms), num_cols(u, ms), 0),
   lookups |-> 2 * num_rows(u, ms) * num_cols(u, ms),
   allocs |-> 1]

\* matrix_sub(E1 const& u, E2 const& v)
matrix_sub(u, v, ms) ==
  Built(num_rows(u, ms) = num_rows(v, ms) /\ num_cols(u, ms) = num_cols(v, ms),
        Node("sub", u, v, num_rows(u, ms), num_cols(u, ms), 0))

\* matrix_prod, primary template
matrix_prod_mm(lhs, rhs, ms) ==
  Built(num_cols(lhs, ms) = num_rows(rhs, ms),
        Node("prod", lhs, rhs, num_rows(lhs, ms), num_cols(rhs, ms), num_cols(lhs, ms)))

\* matrix_prod, specialisation for a scalar lhs
matrix_prod_sm(lhs, rhs, ms) ==
  Built(TRUE, Node("prod_lscalar", lhs, rhs, num_rows(rhs, ms), num_cols(rhs, ms), 0))

\* matrix_prod, specialisation for a scalar rhs
matrix_prod_ms(lhs, rhs, ms) ==
  Built(TRUE, Node("prod_rscalar", lhs, rhs, num_rows(lhs, ms), num_cols(lhs, ms), 0))

\* matrix_prod<E1,E2>: the specialisation the operand types select
matrix_prod(lhs, rhs, ms) ==
  IF IsScalar(lhs) THEN matrix_prod_sm(lhs, rhs, ms)
  ELSE IF IsScalar(rhs) THEN matrix_prod_ms(lhs, rhs, ms)
  ELSE matrix_prod_mm(lhs, rhs, ms)

\* ------------------------------------------------------------- evaluation
\* x op y on element values
Arith(op, x, y) ==
  CASE op = "+" -> Add(x, y)
    [] op = "-" -> Sub(x, y)
    [] op = "*" -> Mul(x, y)

\* x op y on the results of two at() calls: a failed call ends the evaluation
Lift(op, x, y) ==
  IF x.st # "ok" THEN x ELSE IF y.st # "ok" THEN y ELSE Ok(Arith(op, x.v, y.v))

\* dot_product += p, with  auto dot_product = 0  (an int)
Accumulate(acc, p) == ToInt(Add(acc, p))

RECURSIVE at(_, _, _, _, _)

\* a matrix_sum::at that adds lhs_ to itself
matrix_sum_at_lhs_twice(e, row, col, ms, u) ==
  Lift("+", at(e.lhs_, row, col, ms, u), at(e.lhs_, row, col, ms, u))

\* matrix_sum::at
matrix_sum_at(e, row, col, ms, u) ==
  Lift("+", at(e.lhs_, row, col, ms, u), at(e.rhs_, row, col, ms, u))

\* matrix_sub::at
matrix_sub_at(e, row, col, ms, u) ==
  Lift("-", at(e.lhs_, row, col, ms, u), at(e.rhs_, row, col, ms, u))

\* the loop of matrix_prod::at from index k on, acc the accumulator so far
RECURSIVE dot_product(_, _, _, _, _, _, _)
dot_product(e, row, col, ms, u, k, acc) ==
  IF k >= e.shared_dim THEN Ok(acc)
  ELSE LET p == Lift("*", at(e.lhs_, row, k, ms, u), at(e.rhs_, k, col, ms, u))
       IN IF p.st # "ok" THEN p
          ELSE dot_product(e, row, col, ms, u, k + 1, Accumulate(acc, p.v))

\* matrix_prod::at, primary template
matrix_prod_at(e, row, col, ms, u) == dot_product(e, row, col, ms, u, 0, Zero)

\* matrix_prod::at, scalar lhs
matrix_prod_sm_at(e, row, col, ms, u) ==
  Lift("*", Ok(e.lhs_.v), at(e.rhs_, row, col, ms, u))

\* a scalar-rhs matrix_prod::at that adds the scalar
matrix_prod_ms_at_plus(e, row, col, ms, u) ==
  Lift("+", Ok(e.rhs_.v), at(e.lhs_, row, col, ms, u))

\* matrix_prod::at, scalar rhs
matrix_prod_ms_at(e, row, col, ms, u) ==
  Lift("*", Ok(e.rhs_.v), at(e.lhs_, row, col, ms, u))

\* matrix_expr<E>::at(row, col): the at() of the derived class
at(e, row, col, ms, u) ==
  CASE e.kind = "matrix" -> matrix_at(ms[e.name], row, col, u)
    [] e.kind = "sum" -> matrix_sum_at(e, row, col, ms, u)
    [] e.kind = "sub" -> matrix_sub_at(e, row, col, ms, u)
    [] e.kind = "prod" -> matrix_prod_at(e, row, col, ms, u)
    [] e.kind = "prod_lscalar" -> matrix_prod_sm_at(e, row, col, ms, u)
    [] e.kind = "prod_rscalar" -> matrix_prod_ms_at(e, row, col, ms, u)

\* number of matrix<T>::at calls one at() of e makes
RECURSIVE Reads(_)
Reads(e) ==
  CASE e.kind = "matrix" -> 1
    [] e.kind = "scalar" -> 0
    [] e.kind = "prod" -> e.shared_dim * (Reads(e.lhs_) + Reads(e.rhs_))
    [] OTHER -> Reads(e.lhs_) + Reads(e.rhs_)

\* the dense stores an expression refers to
RECURSIVE Leaves(_)
Leaves(e) ==
  CASE e.kind = "matrix" -> {e.name}
    [] e.kind = "scalar" -> {}
    [] OTHER -> Leaves(e.lhs_) \cup Leaves(e.rhs_)

\* ------------------------------------------------------------------ state
VARIABLES
  T,        \* the element type of every matrix<T> and of the scalar
  mats,     \* the dense stores a, b, c of main
  pc,       \* "start", "idle", "expr", "eval", "done", "aborted", "crashed"
  expr,     \* the expression node the current statement has built
  nodes,    \* number of composite nodes in expr
  operands, \* the two operands of the last operator call
  target,   \* the store the current assignment assigns to
  tmp,      \* the temporary matrix<T> the converting constructor fills
  i, j,     \* the loop variables of the converting constructor
  pre,      \* the stores as they were when the assignment began
  lastOp,   \* the last operation
  arg,      \* its arguments: store name, row, col
  result,   \* what the last at() or max() returned
  dims,     \* what the last num_rows(), num_cols() returned
  out,      \* what the last operator<< wrote
  lookups,  \* number of matrix<T>::at calls so far
  allocs    \* number of element buffers allocated for results so far

vars == <<T, mats, pc, expr, nodes, operands, target, tmp, i, j, pre, lastOp, arg,
          result, dims, out, lookups, allocs>>

NoExpr == [kind |-> "none"]

NoArg == [name |-> "", row |-> 0, col |-> 0]

Slack == {-1, 0, 1}

Init ==
  /\ T \in Types
  /\ mats = [n \in Names |-> matrix_default]
  /\ pc = "start"
  /\ expr = NoExpr
  /\ nodes = 0
  /\ operands = <<NoExpr, NoExpr>>
  /\ target = "c"
  /\ tmp = matrix_default
  /\ i = 0
  /\ j = 0
  /\ pre = [n \in Names |-> matrix_default]
  /\ lastOp = "none"
  /\ arg = NoArg
  /\ result = Ok(Zero)
  /\ dims = <<0, 0>>
  /\ out = <<>>
  /\ lookups = 0
  /\ allocs = 0

Outcome(st) == IF st = "ok" THEN "done" ELSE IF st = "abort" THEN "aborted" ELSE "crashed"

\* main: matrix<T> a(rows, cols, va); matrix<T> b(rows, cols, vb); matrix<T> c;
\* the caller supplies the dimensions and the length of the data
Construct(rA, cA, slack, rB, cB) ==
  /\ pc = "start"
  /\ rA * cA + slack >= 0
  /\ mats' = [mats EXCEPT
               !["a"] = matrix_ctor(rA, cA, gen_va(T, rA * cA + slack)),
               !["b"] = matrix_ctor(rB, cB, gen_vb(T, rA * cA + slack, rB * cB)),
               !["c"] = matrix_default]
  /\ pc' = "idle"
  /\ lastOp' = "construct"
  /\ UNCHANGED <<T, expr, nodes, operands, target, tmp, i, j, pre, arg, result, dims,
                 out, lookups, allocs>>

\* --------------------------------------------------- operator entry points
LeafOperands == {Leaf("a"), Leaf("b")}

TheScalar == ScalarOf(Elem(T, scalar))

\* the operand pairs a statement can give an operator: two stores, or the
\* node built so far and a store (a + b - a parses as (a + b) - a)
ShapedPairs ==
  IF pc = "idle" THEN LeafOperands \X LeafOperands ELSE {expr} \X LeafOperands

ScalarPairs ==
  LET X == IF pc = "idle" THEN LeafOperands ELSE {expr}
  IN ({TheScalar} \X X) \cup (X \X {TheScalar})

\* the operator returns the node its constructor built, or the assert aborts
Compose(res, op, lhs, rhs) ==
  /\ pc \in {"idle", "expr"}
  /\ nodes < MaxNodes
  /\ lastOp' = op
  /\ operands' = <<lhs, rhs>>
  /\ lookups' = lookups + res.lookups
  /\ allocs' = allocs + res.allocs
  /\ IF res.ok
     THEN /\ expr' = res.node
          /\ nodes' = nodes + 1
          /\ pc' = "expr"
     ELSE /\ pc' = "aborted"
          /\ UNCHANGED <<expr, nodes>>
  /\ UNCHANGED <<T, mats, target, tmp, i, j, pre, arg, result, dims, out>>

\* operator+(lhs, rhs)
OpPlus(lhs, rhs) == Compose(matrix_sum(lhs, rhs, mats), "plus", lhs, rhs)

\* operator-(lhs, rhs)
OpMinus(lhs, rhs) == Compose(matrix_sub(lhs, rhs, mats), "minus", lhs, rhs)

\* operator*(lhs, rhs)
OpTimes(lhs, rhs) == Compose(matrix_prod(lhs, rhs, mats), "times", lhs, rhs)

\* ---------------------------------------------------------- materialisation
\* matrix_.resize(n): n value-initialised elements
resize(n) == [k \in 1..n |-> Zero]

\* an assignment that writes each element into the target as it is computed
StoreElement_in_place(ms, t, tg, idx, v) ==
  [mats |-> IF ms[tg].dimsSet /\ idx < Len(ms[tg].matrix_)
            THEN [ms EXCEPT ![tg].matrix_[idx + 1] = v]
            ELSE ms,
   tmp |-> [t EXCEPT !.matrix_[idx + 1] = v]]

\* matrix_[idx] = v in the converting constructor: the object under
\* construction is the temporary; the stores are untouched
StoreElement(ms, t, tg, idx, v) ==
  [mats |-> ms, tmp |-> [t EXCEPT !.matrix_[idx + 1] = v]]

LoopDone == i >= tmp.num_rows_ \/ tmp.num_cols_ = 0

\* the stores main assigns to: c, and a to assign to an operand of the tree
Targets == {"a", "c"}

\* target = expr: the converting constructor starts on a temporary
AssignBegin(tg) ==
  /\ pc = "expr"
  /\ target' = tg
  /\ tmp' = matrix_ctor(expr.num_rows_, expr.num_cols_,
                        resize(expr.num_rows_ * expr.num_cols_))
  /\ allocs' = allocs + 1
  /\ i' = 0
  /\ j' = 0
  /\ pre' = mats
  /\ pc' = "eval"
  /\ lastOp' = "assign_begin"
  /\ UNCHANGED <<T, mats, expr, nodes, operands, arg, result, dims, out, lookups>>

\* one iteration of the inner loop of the converting constructor
EvalStep ==
  /\ pc = "eval"
  /\ ~LoopDone
  /\ \E u \in UB(T) :
       LET x == at(expr, i, j, mats, u)
           w == StoreElement(mats, tmp, target, i * tmp.num_cols_ + j, static_cast(T, x.v))
       IN IF x.st = "ok"
          THEN /\ mats' = w.mats
               /\ tmp' = w.tmp
               /\ pc' = "eval"
          ELSE /\ pc' = Outcome(x.st)
               /\ UNCHANGED <<mats, tmp>>
  /\ lookups' = lookups + Reads(expr)
  /\ IF j + 1 < tmp.num_cols_
     THEN /\ j' = j + 1
          /\ i' = i
     ELSE /\ j' = 0
          /\ i' = i + 1
  /\ lastOp' = "eval"
  /\ UNCHANGED <<T, expr, nodes, operands, target, pre, arg, result, dims, out, allocs>>

\* the temporary is move-assigned to the target
AssignCommit ==
  /\ pc = "eval"
  /\ LoopDone
  /\ mats' = [mats EXCEPT ![target] = tmp]
  /\ pc' = "done"
  /\ lastOp' = "commit"
  /\ UNCHANGED <<T, expr, nodes, operands, target, tmp, i, j, pre, arg, result, dims,
                 out, lookups, allocs>>

\* ------------------------------------------------------- direct statements
\* name.at(row, col) on a dense store
At(name, row, col) ==
  /\ pc = "idle"
  /\ \E m \in Resolve(mats[name]), u \in UB(T) :
       LET x == matrix_at(m, row, col, u)
       IN /\ result' = x
          /\ pc' = Outcome(x.st)
  /\ arg' = [name |-> name, row |-> row, col |-> col]
  /\ lookups' = lookups + 1
  /\ lastOp' = "at"
  /\ UNCHANGED <<T, mats, expr, nodes, operands, target, tmp, i, j, pre, dims, out, allocs>>

\* expr.at(row, col) on the node built, at a coordinate of its shape
ExprAt(row, col) ==
  /\ pc = "expr"
  /\ row < expr.num_rows_
  /\ col < expr.num_cols_
  /\ \E u \in UB(T) :
       LET x == at(expr, row, col, mats, u)
       IN /\ result' = x
          /\ pc' = Outcome(x.st)
  /\ arg' = [name |-> "", row |-> row, col |-> col]
  /\ lookups' = lookups + Reads(expr)
  /\ lastOp' = "expr_at"
  /\ UNCHANGED <<T, mats, expr, nodes, operands, target, tmp, i, j, pre, dims, out, allocs>>

\* the for_each of max(): the largest of max_val and the elements from k on
RECURSIVE fold_max(_, _, _)
fold_max(vec, k, max_val) ==
  IF k > Len(vec) THEN max_val
  ELSE fold_max(vec, k + 1, IF Greater(max_val, vec[k]) THEN max_val ELSE vec[k])

\* T matrix<T>::max()
matrix_max(m, u) ==
  LET first == VecRead(m.matrix_, 0, u)
  IN IF first.st # "ok" THEN first ELSE Ok(fold_max(m.matrix_, 1, first.v))

\* name.max()
Max(name) ==
  /\ pc = "idle"
  /\ \E u \in UB(T) :
       LET x == matrix_max(mats[name], u)
       IN /\ result' = x
          /\ pc' = Outcome(x.st)
  /\ arg' = [name |-> name, row |-> 0, col |-> 0]
  /\ lastOp' = "max"
  /\ UNCHANGED <<T, mats, expr, nodes, operands, target, tmp, i, j, pre, dims, out,
                 lookups, allocs>>

\* name.num_rows(), name.num_cols()
Shape(name) ==
  /\ pc = "idle"
  /\ \E m \in Resolve(mats[name]) : dims' = <<m.num_rows_, m.num_cols_>>
  /\ arg' = [name |-> name, row |-> 0, col |-> 0]
  /\ pc' = "done"
  /\ lastOp' = "shape"
  /\ UNCHANGED <<T, mats, expr, nodes, operands, target, tmp, i, j, pre, result, out,
                 lookups, allocs>>

\* what operator<< writes: a value, ' ' or '\n'
Value(v) == [t |-> "value", v |-> v]
Space == [t |-> " ", v |-> Zero]
Newline == [t |-> "\n", v |-> Zero]

\* the loops of operator<< from (r, c) on; acc is what was written so far,
\* n the at() calls made so far
RECURSIVE stream_loops(_, _, _, _, _, _, _)
stream_loops(e, ms, u, r, c, acc, n) ==
  IF r >= num_rows(e, ms) THEN [st |-> "ok", out |-> acc, lookups |-> n]
  ELSE IF c >= num_cols(e, ms) THEN stream_loops(e, ms, u, r + 1, 0, Append(acc, Newline), n)
  ELSE LET x == at(e, r, c, ms, u)
       IN IF x.st # "ok" THEN [st |-> x.st, out |-> acc, lookups |-> n + Reads(e)]
          ELSE stream_loops(e, ms, u, r, c + 1, acc \o <<Value(x.v), Space>>, n + Reads(e))

\* operator<<(stream, expr)
stream_out(e, ms, u) ==
  IF num_rows(e, ms) = 0 THEN [st |-> "ok", out |-> <<>>, lookups |-> 0]
  ELSE stream_loops(e, ms, u, 0, 0, <<>>, 0)

Streamed(w, name) ==
  /\ out' = w.out
  /\ pc' = Outcome(w.st)
  /\ lookups' = lookups + w.lookups
  /\ arg' = [name |-> name, row |-> 0, col |-> 0]
  /\ lastOp' = "render"
  /\ UNCHANGED <<T, mats, expr, nodes, operands, target, tmp, i, j, pre, result, dims, allocs>>

\* cout << name
Render(name) ==
  /\ pc = "idle"
  /\ \E m \in Resolve(mats[name]), u \in UB(T) :
       Streamed(stream_out(Leaf(name), [mats EXCEPT ![name] = m], u), name)

\* cout << expr
RenderExpr ==
  /\ pc = "expr"
  /\ \E u \in UB(T) : Streamed(stream_out(expr, mats, u), "")

\* ------------------------------------------------------------ specification
Coords == 0..(MaxDim + 1)

Next ==
  \/ \E rA \in Dims, cA \in Dims, slack \in Slack, rB \in Dims, cB \in Dims :
       Construct(rA, cA, slack, rB, cB)
  \/ \E p \in ShapedPairs : OpPlus(p[1], p[2])
  \/ \E p \in ShapedPairs : OpMinus(p[1], p[2])
  \/ \E p \in ShapedPairs \cup ScalarPairs : OpTimes(p[1], p[2])
  \/ \E tg \in Targets : AssignBegin(tg)
  \/ EvalStep
  \/ AssignCommit
  \/ \E name \in Names, row \in Coords, col \in Coords : At(name, row, col)
  \/ \E row \in Dims, col \in Dims : ExprAt(row, col)
  \/ \E name \in Names : Max(name)
  \/ \E name \in Names : Shape(name)
  \/ \E name \in Names : Render(name)
  \/ RenderExpr

Spec == Init /\ [][Next]_vars

\* ------------------------------------------------------------------ claims
\* a dense store of shape num_rows_ x num_cols_: its dimensions are set and
\* its buffer holds num_rows_ * num_cols_ elements
WellFormed(m) == m.dimsSet /\ Len(m.matrix_) = m.num_rows_ * m.num_cols_

\* the element of a well-formed store at (r, c), row-major
Cell(m, r, c) == m.matrix_[r * m.num_cols_ + c + 1]

IsLeaf(e) == e.kind = "matrix"

\* the last step completed an assignment of a node over two dense stores
Materialised(kind) ==
  /\ lastOp = "commit"
  /\ expr.kind = kind
  /\ IsLeaf(expr.lhs_)
  /\ IsLeaf(expr.rhs_)
  /\ WellFormed(pre[expr.lhs_.name])
  /\ WellFormed(pre[expr.rhs_.name])

\* the store assigned has the given shape and, at every coordinate, the value f
HasCells(m, rows, cols, f) ==
  /\ WellFormed(m)
  /\ m.num_rows_ = rows
  /\ m.num_cols_ = cols
  /\ \A r \in 0..(rows - 1), c \in 0..(cols - 1) : Cell(m, r, c) = f[r, c]

\* C1: materialising A + B (A - B) over dense stores A, B of equal shape r x c
\* yields a store of shape r x c holding A.at(i,j) + B.at(i,j)
\* (A.at(i,j) - B.at(i,j)) at every coordinate (i,j).
C1_SumDifferenceCells ==
  /\ Materialised("sum") =>
       LET A == pre[expr.lhs_.name]
           B == pre[expr.rhs_.name]
           f == [r \in 0..(A.num_rows_ - 1), c \in 0..(A.num_cols_ - 1) |->
                   Add(Cell(A, r, c), Cell(B, r, c))]
       IN HasCells(mats[target], A.num_rows_, A.num_cols_, f)
  /\ Materialised("sub") =>
       LET A == pre[expr.lhs_.name]
           B == pre[expr.rhs_.name]
           f == [r \in 0..(A.num_rows_ - 1), c \in 0..(A.num_cols_ - 1) |->
                   Sub(Cell(A, r, c), Cell(B, r, c))]
       IN HasCells(mats[target], A.num_rows_, A.num_cols_, f)

C1_Witness ==
  /\ Materialised("sub")
  /\ expr.lhs_.name = "a"
  /\ expr.rhs_.name = "b"
  /\ mats[target].num_rows_ = 2
  /\ mats[target].num_cols_ = 2

\* the mathematical sum over t in [k, n) of A(i,t) * B(t,j)
RECURSIVE Sigma(_, _, _, _, _, _)
Sigma(A, B, r, c, k, n) ==
  IF k >= n THEN Zero
  ELSE Add(Mul(Cell(A, r, k), Cell(B, k, c)), Sigma(A, B, r, c, k + 1, n))

\* C2: materialising A * B over dense A (m x k) and B (k x n) yields a store of
\* shape m x n holding, at every (i,j), the sum over t in [0,k) of
\* A.at(i,t) * B.at(t,j), which is 0 when k = 0.
C2_ProductCells ==
  Materialised("prod") =>
    LET A == pre[expr.lhs_.name]
        B == pre[expr.rhs_.name]
        f == [r \in 0..(A.num_rows_ - 1), c \in 0..(B.num_cols_ - 1) |->
                Sigma(A, B, r, c, 0, A.num_cols_)]
    IN HasCells(mats[target], A.num_rows_, B.num_cols_, f)

\* the last step completed an assignment of scalar * A or A * scalar, A dense
ScalarMaterialised ==
  /\ lastOp = "commit"
  /\ \/ expr.kind = "prod_lscalar" /\ IsLeaf(expr.rhs_) /\ WellFormed(pre[expr.rhs_.name])
     \/ expr.kind = "prod_rscalar" /\ IsLeaf(expr.lhs_) /\ WellFormed(pre[expr.lhs_.name])

\* C3: s * A and A * s have A's shape and materialise to the store holding
\* s * A.at(i,j) at every coordinate; building them never fails on a shape.
C3_ScalarProductCells ==
  /\ ScalarMaterialised =>
       LET s == IF expr.kind = "prod_lscalar" THEN expr.lhs_.v ELSE expr.rhs_.v
           A == IF expr.kind = "prod_lscalar" THEN pre[expr.rhs_.name] ELSE pre[expr.lhs_.name]
           f == [r \in 0..(A.num_rows_ - 1), c \in 0..(A.num_cols_ - 1) |->
                   Mul(s, Cell(A, r, c))]
       IN HasCells(mats[target], A.num_rows_, A.num_cols_, f)
  /\ (lastOp = "times" /\ (IsScalar(operands[1]) \/ IsScalar(operands[2]))) =>
       /\ pc = "expr"
       /\ LET A == IF IsScalar(operands[1]) THEN operands[2] ELSE operands[1]
          IN /\ expr.num_rows_ = num_rows(A, mats)
             /\ expr.num_cols_ = num_cols(A, mats)

C3_Witness ==
  /\ ScalarMaterialised
  /\ expr.kind = "prod_lscalar"
  /\ mats[target].num_rows_ = 2
  /\ mats[target].num_cols_ = 1

SameShape(u, v) ==
  num_rows(u, mats) = num_rows(v, mats) /\ num_cols(u, mats) = num_cols(v, mats)

\* C4: building a Sum or a Difference from operands of different row or
\* column counts, or a matrix product with lhs.num_cols() # rhs.num_rows(),
\* fails in the constructor, no at() having been called; with compatible
\* shapes the construction does not fail.
C4_ShapeCheckedAtConstruction ==
  /\ lastOp \in {"plus", "minus"} =>
       /\ (pc = "aborted") <=> ~SameShape(operands[1], operands[2])
       /\ (pc = "expr") <=> SameShape(operands[1], operands[2])
       /\ lookups = 0
  /\ (lastOp = "times" /\ ~IsScalar(operands[1]) /\ ~IsScalar(operands[2])) =>
       /\ (pc = "aborted") <=> num_cols(operands[1], mats) # num_rows(operands[2], mats)
       /\ (pc = "expr") <=> num_cols(operands[1], mats) = num_rows(operands[2], mats)
       /\ lookups = 0

\* a Sum of a 2 x 1 and a 1 x 2 operand: the constructor has aborted
C4_Witness ==
  /\ lastOp = "plus"
  /\ pc = "aborted"
  /\ num_rows(operands[1], mats) = 2
  /\ num_cols(operands[1], mats) = 1
  /\ num_rows(operands[2], mats) = 1
  /\ num_cols(operands[2], mats) = 2

\* the last operation was at(row, col) on a dense store with its dimensions set
DenseLookup == lastOp = "at" /\ mats[arg.name].dimsSet

InRange(m, row, col) == row < m.num_rows_ /\ col < m.num_cols_

\* C5: at(row, col) on a dense store with row >= num_rows() or
\* col >= num_cols() fails at the lookup instead of returning an element, the
\* boundary coordinates row = num_rows() and col = num_cols() included; only
\* coordinates in range return a value.
C5_OutOfRangeLookupFails ==
  DenseLookup => (pc = "done" => InRange(mats[arg.name], arg.row, arg.col))

\* C6: matrix(rows, cols, data) with a data length other than rows * cols is
\* detected and the construction terminates: it produces no store whose
\* buffer length differs from num_rows() * num_cols().
C6_ConstructorChecksLength ==
  lastOp = "construct" =>
    \A name \in {"a", "b"} :
      Len(mats[name].matrix_) = mats[name].num_rows_ * mats[name].num_cols_

BuildOps == {"plus", "minus", "times"}

\* C7: building a tree of nodes through +, - and * calls at() on no operand
\* and allocates no element storage; the first at() on a leaf of the tree is
\* made by its materialisation, by a query of the tree or by its rendering.
C7_Laziness ==
  /\ lastOp \in BuildOps => lookups = 0 /\ allocs = 0
  /\ (expr # NoExpr /\ (lookups > 0 \/ allocs > 0)) =>
       lastOp \in {"assign_begin", "eval", "commit", "expr_at", "render"}
  /\ allocs > 0 => pc \in {"eval", "done", "aborted", "crashed"}

\* a tree of two nodes over non-empty stores has been built, nothing evaluated
C7_Witness ==
  /\ pc = "expr"
  /\ nodes = 2
  /\ expr.num_rows_ = 2
  /\ expr.num_cols_ = 2
  /\ expr.lhs_.kind = "prod"
  /\ lookups = 0

\* C8: a store made by the default constructor has num_rows() = 0 and
\* num_cols() = 0 and an empty buffer, and renders as the empty string.
C8_DefaultIsEmpty ==
  /\ (lastOp \in {"shape", "render"} /\ arg.name = "c") =>
       /\ ~mats["c"].dimsSet
       /\ mats["c"].matrix_ = <<>>
  /\ (lastOp = "shape" /\ arg.name = "c") => dims = <<0, 0>>
  /\ (lastOp = "render" /\ arg.name = "c") => pc = "done" /\ out = <<>>

\* the largest element of a non-empty buffer
IsMaxOf(v, vec) ==
  /\ \E k \in 1..Len(vec) : vec[k] = v
  /\ \A k \in 1..Len(vec) : ~Greater(vec[k], v)

\* C9: max() on a non-empty store returns an element of the buffer that is
\* >= every element, the store unchanged; max() on an empty store fails as a
\* contract violation instead of returning a value.
C9_Max ==
  lastOp = "max" =>
    IF Len(mats[arg.name].matrix_) = 0
    THEN pc # "done"
    ELSE /\ pc = "done"
         /\ result.st = "ok"
         /\ IsMaxOf(result.v, mats[arg.name].matrix_)

\* the converting constructor applied to e over the stores ms, as a whole
Evaluated(e, ms) ==
  matrix_ctor(e.num_rows_, e.num_cols_,
              [k \in 1..(e.num_rows_ * e.num_cols_) |->
                 static_cast(T, at(e, (k - 1) \div e.num_cols_, (k - 1) % e.num_cols_,
                                   ms, [crash |-> TRUE, v |-> Zero]).v)])

AllWellFormed(e, ms) == \A name \in Leaves(e) : WellFormed(ms[name])

\* C10: when a tree is assigned to a store D that is one of its leaves, every
\* coordinate is computed from D's contents before the assignment: while the
\* tree is evaluated no store changes, and D is replaced only after the last
\* coordinate, by the value of the tree over the stores as they were.
C10_AssignmentReadsOldContents ==
  /\ pc = "eval" => mats = pre
  /\ (lastOp = "commit" /\ AllWellFormed(expr, pre)) =>
       /\ mats[target] = Evaluated(expr, pre)
       /\ \A name \in Names \ {target} : mats[name] = pre[name]

\* a = a * b has completed on 2 x 2 stores
C10_Witness ==
  /\ lastOp = "commit"
  /\ AllWellFormed(expr, pre)
  /\ target = "a"
  /\ expr.kind = "prod"
  /\ expr.lhs_ = Leaf("a")
  /\ expr.rhs_ = Leaf("b")
  /\ expr.num_rows_ = 2
  /\ expr.num_cols_ = 2

====
